---- MODULE Spec2Model ----
(***************************************************************************)
(* A model of circuitpython_scripts: connection_helper.py (radio detection *)
(* with a cache of found radios) and socket_logger.py (logging wrappers    *)
(* around a socket and a socket pool).  The program is single-threaded and *)
(* synchronous, so every public function is one atomic action.  The        *)
(* variable `last` records what the most recent call was, what it did and  *)
(* how it ended; the properties are stated over it.                        *)
(***************************************************************************)
EXTENDS Integers, Sequences, FiniteSets, TLC

VARIABLES
    is_microcontroller,   \* connection_helper.py:18
    board_imported,       \* whether `import board, busio, digitalio` (11-16) succeeded
    libraries,            \* the importable radio libraries among wifi, esp32spi, wiznet5k
    board,                \* the attribute names the board module defines
    global_found_radios,  \* _global_found_radios: name -> [radio, pins]
    global_spi,           \* _global_spi is not None
    constructed,          \* per kind: number of driver objects constructed so far
    pins,                 \* the DigitalInOut objects: pin object -> number of deinit() calls
    connected,            \* the radio handles whose .connected is true
    saves,                \* per kind: number of save_radio calls
    deinits,              \* per kind: number of deinit_radio calls that found the radio
    last,                 \* the most recent connection_helper call
    pool_enable,          \* SocketPoolLogger._enable_log_<name>, as the set of enabled names
    wrapper,              \* a SocketLogger: the socket it wraps and its methods that log
    lastlog               \* the most recent socket_logger call

radioVars == <<is_microcontroller, board_imported, libraries, board,
               global_found_radios, global_spi, constructed, pins, connected,
               saves, deinits, last>>
logVars == <<pool_enable, wrapper, lastlog>>
vars == <<radioVars, logVars>>

----------------------------------------------------------------------------
(* Bounds of the model *)

\* driver objects constructed in one behaviour
MaxDrivers == 2
\* deinit_radio calls that find their radio, in one behaviour
MaxDeinits == 1
\* socket objects of the underlying pool
MaxSockets == 2
\* length of the buffers sent and received
MaxBuf == 2

----------------------------------------------------------------------------
(* connection_helper.py *)

Kinds == {"cpython", "wifi", "esp32spi", "wiznet5k"}
HardwareLibraries == {"wifi", "esp32spi", "wiznet5k"}
\* the values of get_radio's force parameter that are modelled; "None" is None
Forces == {"None", "wifi", "esp32spi", "wiznet5k", "cpython"}

\* None, as a radio handle
NoRadio == [kind |-> "None", id |-> 0]
\* wifi.radio is one object of the wifi module (line 186): no driver is constructed
WifiRadio == [kind |-> "wifi", id |-> 0]
\* A driver object is named by its kind and its rank among the drivers of
\* that kind: every construction makes a new object.
DriverKinds == {"cpython", "esp32spi", "wiznet5k"}
\* A DigitalInOut object is named by the local variable that holds it.  A
\* probe allocates new objects under the names of the previous probe, whose
\* objects nothing refers to any more.
Esp32Pins == <<"esp32_chip_select", "esp32_ready", "esp32_reset">>
WiznetPins == <<"wiznet_chip_select">>

\* The boards modelled: one that names its ESP32 pins, one with all the
\* default pins, one that lacks D12 (ESP32SPI_RESET) and D10 (WIZNET_CHIP_SELECT)
BoardLayouts ==
    { {"ESP_CS", "ESP_BUSY", "ESP_RESET", "D10"},
      {"D13", "D11", "D12", "D10"},
      {"D13", "D11"} }

\* The module globals a probe reads and writes, as one value.
Globals == [found |-> global_found_radios, spi |-> global_spi,
            constructed |-> constructed, pins |-> pins, saves |-> saves]

\* How a call ends: g the globals after it, ret the value returned (NoRadio
\* is None), exc the exception raised ("" when it returns), alloc the
\* DigitalInOut objects it allocated, probes the radio kinds it probed, hw
\* the kinds whose hardware it talked to.
Return(g, radio, alloc, probes, hw) ==
    [g |-> g, ret |-> radio, exc |-> "", msg |-> "", alloc |-> alloc, probes |-> probes,
     hw |-> hw]
Raise(g, exc, msg, alloc, probes, hw) ==
    [g |-> g, ret |-> NoRadio, exc |-> exc, msg |-> msg, alloc |-> alloc, probes |-> probes,
     hw |-> hw]

get_global_spi(g) == [g EXCEPT !.spi = TRUE]

\* get_pin(env_name, default) with the environment variable unset: whether
\* the board has the default pin (otherwise ValueError)
get_pin(default) == default \in board

\* get_saved_radio as it would be if the lookup never found the entry
get_saved_radio_miss(found, name) == NoRadio

get_saved_radio(found, name) ==
    IF name \in DOMAIN found THEN found[name].radio ELSE NoRadio

\* pins=None (cpython, wifi) is the empty sequence: deinit_radio skips it
save_radio(g, name, radio, pinlist) ==
    [g EXCEPT !.found = [k \in (DOMAIN g.found) \cup {name} |->
                            IF k = name THEN [radio |-> radio, pins |-> pinlist]
                            ELSE g.found[k]],
              !.saves[name] = @ + 1]

\* digitalio.DigitalInOut(pin) for each name of the list: new objects
DigitalInOut(pinstate, pinlist) ==
    LET new == {pinlist[j] : j \in DOMAIN pinlist} IN
    [p \in (DOMAIN pinstate) \cup new |-> IF p \in new THEN 0 ELSE pinstate[p]]

\* pin.deinit() on each pin of the list
DeinitPins(pinstate, pinlist) ==
    [p \in DOMAIN pinstate |->
        pinstate[p] + Cardinality({j \in DOMAIN pinlist : pinlist[j] = p})]

\* The constructor of a driver of this kind returns: a new object
Construct(g, kind) == [g EXCEPT !.constructed[kind] = @ + 1]
NewDriver(g, kind) == [kind |-> kind, id |-> g.constructed[kind] + 1]

\* cpython_constructs: whether adafruit_connection_manager.CPythonNetwork()
\* succeeds; it always does off the microcontroller
get_cpython_radio(g, raise_exception, cpython_constructs) ==
    LET radio == get_saved_radio(g.found, "cpython") IN
    IF radio # NoRadio THEN Return(g, radio, <<>>, <<"cpython">>, {})
    ELSE IF is_microcontroller /\ raise_exception
    THEN Raise(g, "RuntimeError", "CPython library not found", <<>>, <<"cpython">>, {})
    ELSE IF is_microcontroller /\ ~cpython_constructs
    THEN Raise(g, "ImportError", "socket", <<>>, <<"cpython">>, {"cpython"})
    ELSE LET new == NewDriver(g, "cpython")
             g1 == Construct(g, "cpython")
         IN Return(save_radio(g1, "cpython", new, <<>>), new, <<>>, <<"cpython">>,
                   IF is_microcontroller THEN {"cpython"} ELSE {})

get_wifi_radio(g, raise_exception) ==
    LET radio == get_saved_radio(g.found, "wifi") IN
    IF radio # NoRadio THEN Return(g, radio, <<>>, <<"wifi">>, {})
    ELSE IF "wifi" \notin libraries
    THEN IF raise_exception
         THEN Raise(g, "RuntimeError", "WiFi library not found", <<>>, <<"wifi">>, {})
         ELSE Return(g, NoRadio, <<>>, <<"wifi">>, {})
    ELSE Return(save_radio(g, "wifi", WifiRadio, <<>>), WifiRadio, <<>>, <<"wifi">>, {})

\* responds: whether radio.firmware_version answers (otherwise TimeoutError)
get_esp32spi_radio(g, raise_exception, responds) ==
    LET radio == get_saved_radio(g.found, "esp32spi")
        P == <<"esp32spi">>
    IN
    IF radio # NoRadio THEN Return(g, radio, <<>>, P, {})
    ELSE IF "esp32spi" \notin libraries
    THEN IF raise_exception
         THEN Raise(g, "RuntimeError", "ESP32SPI library not found", <<>>, P, {})
         ELSE Return(g, NoRadio, <<>>, P, {})
    ELSE IF ~board_imported
    THEN Raise(g, "NameError", "board", <<>>, P, {})
    ELSE IF "ESP_CS" \notin board /\ ~get_pin("D13")
    THEN Raise(g, "ValueError", "Pin D13 for ESP32SPI_CHIP_SELECT not found", <<>>, P, {})
    ELSE IF "ESP_CS" \notin board /\ ~get_pin("D11")
    THEN Raise(g, "ValueError", "Pin D11 for ESP32SPI_READY not found", <<>>, P, {})
    ELSE IF "ESP_CS" \notin board /\ ~get_pin("D12")
    THEN Raise(g, "ValueError", "Pin D12 for ESP32SPI_RESET not found", <<>>, P, {})
    ELSE LET alloc == Esp32Pins
             new == NewDriver(g, "esp32spi")
             g1 == get_global_spi([g EXCEPT !.pins = DigitalInOut(@, alloc)])
             g2 == Construct(g1, "esp32spi")
             g3 == [g2 EXCEPT !.pins = DeinitPins(@, alloc)]
         IN IF ~responds
            THEN IF raise_exception
                 THEN Raise(g3, "RuntimeError", "ESP32SPI radio not found", alloc, P, {"esp32spi"})
                 ELSE Return(g3, NoRadio, alloc, P, {"esp32spi"})
            ELSE Return(save_radio(g2, "esp32spi", new, alloc), new, alloc, P, {"esp32spi"})

\* responds: whether WIZNET5K(...) finds the chip (otherwise RuntimeError).
\* The handler of that RuntimeError calls chip_select.deinit(), and no name
\* chip_select exists (line 212): it raises NameError.
get_wiznet5k_radio(g, raise_exception, responds) ==
    LET radio == get_saved_radio(g.found, "wiznet5k")
        P == <<"wiznet5k">>
    IN
    IF radio # NoRadio THEN Return(g, radio, <<>>, P, {})
    ELSE IF "wiznet5k" \notin libraries
    THEN IF raise_exception
         THEN Raise(g, "RuntimeError", "WIZnet5k library not found", <<>>, P, {})
         ELSE Return(g, NoRadio, <<>>, P, {})
    ELSE IF ~board_imported
    THEN Raise(g, "NameError", "board", <<>>, P, {})
    ELSE IF ~get_pin("D10")
    THEN Raise(g, "ValueError", "Pin D10 for WIZNET_CHIP_SELECT not found", <<>>, P, {})
    ELSE LET alloc == WiznetPins
             new == NewDriver(g, "wiznet5k")
             g1 == get_global_spi([g EXCEPT !.pins = DigitalInOut(@, alloc)])
             g2 == Construct(g1, "wiznet5k")
         IN IF ~responds
            THEN Raise(g1, "NameError", "chip_select", alloc, P, {"wiznet5k"})
            ELSE Return(save_radio(g2, "wiznet5k", new, alloc), new, alloc, P, {"wiznet5k"})

\* The outcome of one get_<kind>_radio call, its probe marked with whether
\* it gave a radio
Probed(r) ==
    [r EXCEPT !.probes = <<[kind |-> r.probes[1], ok |-> r.exc = "" /\ r.ret # NoRadio]>>]

\* The outcome of a probe made after the probes of prev, in the same call
Chain(prev, next) ==
    [Probed(next) EXCEPT !.alloc = prev.alloc \o @, !.probes = prev.probes \o @,
                         !.hw = prev.hw \cup @]

\* get_radio up to line 240: the probes, each a step from the outcome of the
\* probes before it.  raise_exception=force is truthy exactly when force is
\* not None (the modelled values are non-empty).
\* lines 227-228
try_cpython(g) ==
    IF ~is_microcontroller
    THEN Probed(get_cpython_radio(g, FALSE, TRUE))
    ELSE Return(g, NoRadio, <<>>, <<>>, {})
\* lines 230-231: `radio is None and force is None or force == "wifi"`
try_wifi(r, force) ==
    IF r.exc = "" /\ ((r.ret = NoRadio /\ force = "None") \/ force = "wifi")
    THEN Chain(r, get_wifi_radio(r.g, force # "None"))
    ELSE r
\* lines 233-234 as they would be without `radio is None`
try_esp32spi_always(r, force, esp_responds) ==
    IF r.exc = "" /\ (force = "None" \/ force = "esp32spi")
    THEN Chain(r, get_esp32spi_radio(r.g, force # "None", esp_responds))
    ELSE r
\* lines 233-234
try_esp32spi(r, force, esp_responds) ==
    IF r.exc = "" /\ ((r.ret = NoRadio /\ force = "None") \/ force = "esp32spi")
    THEN Chain(r, get_esp32spi_radio(r.g, force # "None", esp_responds))
    ELSE r
\* lines 236-237
try_wiznet5k(r, force, wiz_responds) ==
    IF r.exc = "" /\ ((r.ret = NoRadio /\ force = "None") \/ force = "wiznet5k")
    THEN Chain(r, get_wiznet5k_radio(r.g, force # "None", wiz_responds))
    ELSE r
\* lines 239-240
or_raise(r) ==
    IF r.exc = "" /\ r.ret = NoRadio
    THEN Raise(r.g, "RuntimeError", "Cannot determine radio", r.alloc, r.probes, r.hw)
    ELSE r

detect_radio(g, force, esp_responds, wiz_responds) ==
    or_raise(try_wiznet5k(try_esp32spi(try_wifi(try_cpython(g), force),
                                       force, esp_responds),
                          force, wiz_responds))

\* hasattr(radio, "connect"): wifi.radio and ESP_SPIcontrol have a connect
\* method, WIZNET5K and CPythonNetwork have none
ConnectKinds == {"wifi", "esp32spi"}
HasConnect(radio) == radio.kind \in ConnectKinds

\* os.getenv: "None" is an unset variable, "" an empty one
NoEnv == [WIFI_SSID |-> "None", CIRCUITPY_WIFI_SSID |-> "None"]
SsidSettings ==
    { NoEnv,
      [WIFI_SSID |-> "home", CIRCUITPY_WIFI_SSID |-> "lab"],
      [WIFI_SSID |-> "", CIRCUITPY_WIFI_SSID |-> "lab"],
      [WIFI_SSID |-> "None", CIRCUITPY_WIFI_SSID |-> ""] }
Truthy(value) == value \notin {"None", ""}
\* lines 76-81: the ssid and the variable the password is read from
ResolveSsid(env) ==
    IF Truthy(env.WIFI_SSID)
    THEN [ssid |-> env.WIFI_SSID, password |-> "WIFI_PASSWORD"]
    ELSE [ssid |-> env.CIRCUITPY_WIFI_SSID, password |-> "CIRCUITPY_WIFI_PASSWORD"]

ConnectOutcomes == {"ok", "TypeError", "ConnectionError"}
ConnectAPOutcomes == {"ok", "ConnectionError"}

\* How connect_radio ends: the connected radios after it, the calls of
\* radio.connect and radio.connect_AP it made, whether it read the settings
Connection(conn, attempts, exc, msg, read_env) ==
    [connected |-> conn, attempts |-> attempts, exc |-> exc, msg |-> msg,
     read_env |-> read_env]

\* connect_radio as it would be without the `radio.connected` test of line 72
connect_radio_again(conn, radio, env, connect_outcome, ap_outcome) ==
    LET r == ResolveSsid(env)
        first == [method |-> "connect", ssid |-> r.ssid, password |-> r.password,
                  ok |-> connect_outcome = "ok"]
        second == [method |-> "connect_AP", ssid |-> r.ssid, password |-> r.password,
                   ok |-> ap_outcome = "ok"]
    IN IF ~HasConnect(radio)
       THEN Connection(conn, <<>>, "", "", FALSE)
       ELSE IF r.ssid = "None"
       THEN Connection(conn, <<>>, "AttributeError",
                       "Can't find SSID information in settings.toml", TRUE)
       ELSE IF connect_outcome = "ok"
       THEN Connection(conn \cup {radio}, <<first>>, "", "", TRUE)
       ELSE IF connect_outcome # "TypeError"
       THEN Connection(conn, <<first>>, connect_outcome, "", TRUE)
       ELSE IF ap_outcome = "ok"
       THEN Connection(conn \cup {radio}, <<first, second>>, "", "", TRUE)
       ELSE Connection(conn, <<first, second>>, ap_outcome, "", TRUE)

\* connect_radio: conn the connected radios; connect_outcome and ap_outcome
\* are how radio.connect and radio.connect_AP end when they are called
connect_radio(conn, radio, env, connect_outcome, ap_outcome) ==
    LET r == ResolveSsid(env)
        first == [method |-> "connect", ssid |-> r.ssid, password |-> r.password,
                  ok |-> connect_outcome = "ok"]
        second == [method |-> "connect_AP", ssid |-> r.ssid, password |-> r.password,
                   ok |-> ap_outcome = "ok"]
    IN IF ~HasConnect(radio)
       THEN Connection(conn, <<>>, "", "", FALSE)
       ELSE IF radio \in conn
       THEN Connection(conn, <<>>, "", "", FALSE)
       ELSE IF r.ssid = "None"
       THEN Connection(conn, <<>>, "AttributeError",
                       "Can't find SSID information in settings.toml", TRUE)
       ELSE IF connect_outcome = "ok"
       THEN Connection(conn \cup {radio}, <<first>>, "", "", TRUE)
       ELSE IF connect_outcome # "TypeError"
       THEN Connection(conn, <<first>>, connect_outcome, "", TRUE)
       ELSE IF ap_outcome = "ok"
       THEN Connection(conn \cup {radio}, <<first, second>>, "", "", TRUE)
       ELSE Connection(conn, <<first, second>>, ap_outcome, "", TRUE)

\* lines 242-245: connect_radio on the radio found, when asked to
then_connect(r, conn, connect, env, connect_outcome, ap_outcome) ==
    IF r.exc = "" /\ connect
    THEN connect_radio(conn, r.ret, env, connect_outcome, ap_outcome)
    ELSE Connection(conn, <<>>, "", "", FALSE)
\* the outcome of get_radio from those of its probes and of connect_radio
radio_outcome(r, c) ==
    [res |-> IF c.exc # "" THEN Raise(r.g, c.exc, c.msg, r.alloc, r.probes, r.hw) ELSE r,
     con |-> c]
finish_radio(r, conn, connect, env, connect_outcome, ap_outcome) ==
    radio_outcome(r, then_connect(r, conn, connect, env, connect_outcome, ap_outcome))

\* get_radio: the outcome of the probes (res) and of connect_radio (con)
get_radio(g, conn, connect, force, esp_responds, wiz_responds, env, connect_outcome, ap_outcome) ==
    finish_radio(detect_radio(g, force, esp_responds, wiz_responds), conn, connect, env,
                 connect_outcome, ap_outcome)

\* deinit_radio as it would be if it deleted the entry without the
\* pin.deinit() loop of lines 105-107
deinit_radio_keep_pins(g, radio) ==
    LET matches == {key \in DOMAIN g.found : g.found[key].radio = radio} IN
    IF matches = {}
    THEN Raise(g, "ValueError", "Radio not found", <<>>, <<>>, {})
    ELSE LET key == CHOOSE k \in matches : TRUE
         IN Return([g EXCEPT !.found = [k \in (DOMAIN g.found) \ {key} |-> g.found[k]]],
                   NoRadio, <<>>, <<>>, {})

\* deinit_radio: at most one entry holds a given radio, so the first match
\* of the loop is the match
deinit_radio(g, radio) ==
    LET matches == {key \in DOMAIN g.found : g.found[key].radio = radio} IN
    IF matches = {}
    THEN Raise(g, "ValueError", "Radio not found", <<>>, <<>>, {})
    ELSE LET key == CHOOSE k \in matches : TRUE
             g1 == [g EXCEPT !.pins = DeinitPins(@, g.found[key].pins)]
             g2 == [g1 EXCEPT !.found = [k \in (DOMAIN g.found) \ {key} |-> g.found[k]]]
         IN Return(g2, NoRadio, <<>>, <<>>, {})

----------------------------------------------------------------------------
(* socket_logger.py *)

\* the socket methods SocketLogger can log, in the order of lines 74-79
MethodOrder == <<"close", "connect", "recv_into", "send", "sendto", "settimeout">>
Methods == {MethodOrder[i] : i \in DOMAIN MethodOrder}

\* None, and an optional argument the caller did not pass
Absent == -1

\* except Exception (lines 127, 223, 255) catches these and lets the other
\* exceptions (KeyboardInterrupt) through
Exceptions == {"OSError", "TypeError", "IndexError", "AttributeError"}

\* The arguments of a socket method call: extra holds the positional
\* arguments after the ones the method names
SocketArgs(address, b, size, value, extra) ==
    [address |-> address, b |-> b, size |-> size, value |-> value, extra |-> extra]
NoArgs == SocketArgs(<<>>, <<>>, Absent, Absent, <<>>)
\* The arguments of a pool method call
PoolArgs(host, port, family, type, proto, flags, fileno) ==
    [host |-> host, port |-> port, family |-> family, type |-> type, proto |-> proto,
     flags |-> flags, fileno |-> fileno]
NoPoolArgs == PoolArgs("", Absent, Absent, Absent, Absent, Absent, Absent)

\* How a call of the underlying object ends: the exception it raises ("" for
\* none), the value it returns, and for recv_into the buffer afterwards
Outcome(exc, value, data) == [exc |-> exc, value |-> value, data |-> data]

\* A call the underlying socket (socket > 0) or pool (socket = 0) receives
UnderlyingCall(socket, method, args, pargs) ==
    [socket |-> socket, method |-> method, args |-> args, pargs |-> pargs]

\* _log_method: one printed line.  hash(obj) is the object; result is what
\* str(result) shows: the value, the exception, or for recv_into the value
\* and the bytes received
log_method(obj_hash, method, result) ==
    [hash |-> obj_hash, method |-> method, result |-> result]

\* How a call of a wrapper ends: the calls the underlying object received,
\* the lines printed, the exception raised and the value returned, and for
\* SocketPoolLogger.socket the SocketLogger returned
NoWrapper == [socket |-> 0, logged |-> {}]
Ended(calls, printed, exc, value, made) ==
    [calls |-> calls, printed |-> printed, exc |-> exc, value |-> value, wrapper |-> made]

\* _call_method as it would be without the `raise` of line 129: the
\* exception is logged and None is returned
call_method_swallow(w, method_name, args, bytes_arg, under) ==
    LET calls == <<UnderlyingCall(w.socket, method_name, args, NoPoolArgs)>>
        shown == IF bytes_arg
                 THEN Outcome("", under.value, SubSeq(under.data, 1, under.value))
                 ELSE Outcome("", under.value, <<>>)
    IN IF under.exc = ""
       THEN Ended(calls, <<log_method(w.socket, method_name, shown)>>, "", under.value,
                  NoWrapper)
       ELSE IF under.exc \in Exceptions
       THEN Ended(calls, <<log_method(w.socket, method_name,
                                      Outcome(under.exc, Absent, <<>>))>>,
                  "", Absent, NoWrapper)
       ELSE Ended(calls, <<>>, under.exc, Absent, NoWrapper)

\* SocketLogger._call_method: under is how method(*args, **kwargs) ends
call_method(w, method_name, args, bytes_arg, under) ==
    LET calls == <<UnderlyingCall(w.socket, method_name, args, NoPoolArgs)>>
        shown == IF bytes_arg
                 THEN Outcome("", under.value, SubSeq(under.data, 1, under.value))
                 ELSE Outcome("", under.value, <<>>)
    IN IF under.exc = ""
       THEN Ended(calls, <<log_method(w.socket, method_name, shown)>>, "", under.value,
                  NoWrapper)
       ELSE IF under.exc \in Exceptions
       THEN Ended(calls, <<log_method(w.socket, method_name,
                                      Outcome(under.exc, Absent, <<>>))>>,
                  under.exc, Absent, NoWrapper)
       ELSE Ended(calls, <<>>, under.exc, Absent, NoWrapper)

\* a call that does not fit the signature of the _log_ method: TypeError
\* before anything is called
BadCall == Ended(<<>>, <<>>, "TypeError", Absent, NoWrapper)
\* address[0] or address[1] of an address that is no pair: IndexError
\* before anything is called
BadAddress == Ended(<<>>, <<>>, "IndexError", Absent, NoWrapper)

\* _log_close(self)
log_close(w, args, under) ==
    IF args.extra # <<>> THEN BadCall
    ELSE call_method(w, "close", NoArgs, FALSE, under)

\* _log_connect(self, address, *args, **kwargs)
log_connect(w, args, under) ==
    IF Len(args.address) < 2 THEN BadAddress
    ELSE call_method(w, "connect", args, FALSE, under)

\* _log_recv_into(self, b, size=0)
log_recv_into(w, args, under) ==
    IF args.extra # <<>> THEN BadCall
    ELSE call_method(w, "recv_into",
                     [args EXCEPT !.size = IF @ = Absent THEN 0 ELSE @], TRUE, under)

\* _log_send(self, b)
log_send(w, args, under) ==
    IF args.extra # <<>> THEN BadCall
    ELSE call_method(w, "send", args, FALSE, under)

\* _log_sendto(self, b, address)
log_sendto(w, args, under) ==
    IF args.extra # <<>> THEN BadCall
    ELSE IF Len(args.address) < 2 THEN BadAddress
    ELSE call_method(w, "sendto", args, FALSE, under)

\* _log_settimeout(self, value)
log_settimeout(w, args, under) ==
    IF args.extra # <<>> THEN BadCall
    ELSE call_method(w, "settimeout", args, FALSE, under)

\* the method of the underlying socket, called directly
native_method(w, method_name, args, under) ==
    Ended(<<UnderlyingCall(w.socket, method_name, args, NoPoolArgs)>>, <<>>,
          under.exc, IF under.exc = "" THEN under.value ELSE Absent, NoWrapper)

\* wrapper.<method_name>(...): the attribute enable_log has set
socket_method(w, method_name, args, under) ==
    IF method_name \notin w.logged THEN native_method(w, method_name, args, under)
    ELSE IF method_name = "close" THEN log_close(w, args, under)
    ELSE IF method_name = "connect" THEN log_connect(w, args, under)
    ELSE IF method_name = "recv_into" THEN log_recv_into(w, args, under)
    ELSE IF method_name = "send" THEN log_send(w, args, under)
    ELSE IF method_name = "sendto" THEN log_sendto(w, args, under)
    ELSE log_settimeout(w, args, under)

\* SocketLogger.enable_log: has is the set of methods the socket has;
\* getattr without a default raises AttributeError for a missing one.  A
\* name with no _log_ method gets the native method.
enable_log(w, enable, method_name, has) ==
    IF method_name \notin has
    THEN Ended(<<>>, <<>>, "AttributeError", Absent, w)
    ELSE Ended(<<>>, <<>>, "", Absent,
               [w EXCEPT !.logged = IF enable /\ method_name \in Methods
                                    THEN @ \cup {method_name}
                                    ELSE @ \ {method_name}])

\* SocketLogger.__init__: the six enable_log calls, in order
RECURSIVE EnableEach(_, _, _, _)
EnableEach(w, flags, has, i) ==
    IF i > Len(MethodOrder) THEN Ended(<<>>, <<>>, "", Absent, w)
    ELSE LET r == enable_log(w, MethodOrder[i] \in flags, MethodOrder[i], has) IN
         IF r.exc # "" THEN Ended(<<>>, <<>>, r.exc, Absent, NoWrapper)
         ELSE EnableEach(r.wrapper, flags, has, i + 1)

SocketLogger(socket, flags, has) ==
    EnableEach([socket |-> socket, logged |-> {}], flags, has, 1)

\* SocketPoolLogger.getaddrinfo
getaddrinfo(pargs, under) ==
    LET calls == <<UnderlyingCall(0, "getaddrinfo", NoArgs,
                                  PoolArgs(pargs.host, pargs.port, pargs.family, pargs.type,
                                           pargs.proto, pargs.flags, Absent))>>
    IN IF under.exc = ""
       THEN Ended(calls, <<log_method(0, "getaddrinfo", Outcome("", under.value, <<>>))>>,
                  "", under.value, NoWrapper)
       ELSE IF under.exc \in Exceptions
       THEN Ended(calls, <<log_method(0, "getaddrinfo", Outcome(under.exc, Absent, <<>>))>>,
                  under.exc, Absent, NoWrapper)
       ELSE Ended(calls, <<>>, under.exc, Absent, NoWrapper)

\* SocketPoolLogger.socket: the pool is called with family, type and proto;
\* under.value is the socket it returns, has the methods of that socket.
\* The SocketLogger is constructed inside the try block.
pool_socket(enabled, pargs, under, has) ==
    LET calls == <<UnderlyingCall(0, "socket", NoArgs,
                                  PoolArgs("", Absent, pargs.family, pargs.type,
                                           pargs.proto, Absent, Absent))>>
        first == log_method(0, "socket", Outcome("", under.value, <<>>))
        made == SocketLogger(under.value, enabled, has)
    IN IF under.exc = ""
       THEN IF made.exc = ""
            THEN Ended(calls, <<first>>, "", under.value, made.wrapper)
            ELSE Ended(calls,
                       <<first, log_method(0, "socket", Outcome(made.exc, Absent, <<>>))>>,
                       made.exc, Absent, NoWrapper)
       ELSE IF under.exc \in Exceptions
       THEN Ended(calls, <<log_method(0, "socket", Outcome(under.exc, Absent, <<>>))>>,
                  under.exc, Absent, NoWrapper)
       ELSE Ended(calls, <<>>, under.exc, Absent, NoWrapper)

----------------------------------------------------------------------------
(* The calls of connection_helper.py, as actions.  A call is one step: it  *)
(* changes the globals and leaves its outcome in `last`; with Resume the   *)
(* caller takes the outcome and goes on to its next call.  An input a call *)
(* does not read (a hardware response, the settings, the outcome of        *)
(* connect) takes its first value, so that one call is one transition.     *)

\* The record of a call: its name and arguments, and from its outcome the
\* value returned, the exception, the probes made, the pins allocated, the
\* connection attempts, and whether the radio was connected when
\* connect_radio began
Call(op, force, connect, raise_exception, radio, env, r, attempts, was_connected) ==
    [op |-> op, force |-> force, connect |-> connect,
     raise_exception |-> raise_exception, radio |-> radio, env |-> env,
     ret |-> r.ret, exc |-> r.exc, msg |-> r.msg, probes |-> r.probes,
     alloc |-> r.alloc, attempts |-> attempts, was_connected |-> was_connected]

\* no call is in progress: the caller is about to make its next call
NoCall ==
    Call("", "None", FALSE, FALSE, NoRadio, NoEnv, Return(0, NoRadio, <<>>, <<>>, {}),
         <<>>, FALSE)

WithinBounds(g) ==
    g.constructed["cpython"] + g.constructed["esp32spi"] + g.constructed["wiznet5k"]
        <= MaxDrivers

SetGlobals(g) ==
    /\ global_found_radios' = g.found
    /\ global_spi' = g.spi
    /\ constructed' = g.constructed
    /\ pins' = g.pins
    /\ saves' = g.saves

\* the radio objects that exist
Handles ==
    {WifiRadio} \cup
    {h \in [kind : DriverKinds, id : 1..MaxDrivers] : h.id <= constructed[h.kind]}

GetRadio ==
    \E connect \in BOOLEAN, force \in Forces, esp \in BOOLEAN, wiz \in BOOLEAN :
        LET d == detect_radio(Globals, force, esp, wiz)
            reads == connect /\ d.exc = ""
                     /\ connect_radio(connected, d.ret, NoEnv, "ok", "ok").read_env
        IN
        /\ last = NoCall
        /\ esp \/ "esp32spi" \in d.hw
        /\ wiz \/ "wiznet5k" \in d.hw
        /\ WithinBounds(d.g)
        /\ \E env \in IF reads THEN SsidSettings ELSE {NoEnv} :
           \E co \in IF reads /\ ResolveSsid(env).ssid # "None" THEN ConnectOutcomes ELSE {"ok"} :
           \E ao \in IF co = "TypeError" THEN ConnectAPOutcomes ELSE {"ok"} :
              LET r == get_radio(Globals, connected, connect, force, esp, wiz, env, co, ao)
              IN /\ SetGlobals(r.res.g)
                 /\ connected' = r.con.connected
                 /\ last' = Call("get_radio", force, connect, FALSE, NoRadio, env, r.res,
                                  r.con.attempts,
                                  connect /\ d.exc = "" /\ d.ret \in connected)
        /\ UNCHANGED <<is_microcontroller, board_imported, libraries, board, deinits>>
        /\ UNCHANGED logVars

ProbeDone(op, raise_exception, r) ==
    /\ last = NoCall
    /\ WithinBounds(r.g)
    /\ SetGlobals(r.g)
    /\ last' = Call(op, "None", FALSE, raise_exception, NoRadio, NoEnv, Probed(r), <<>>,
                     FALSE)
    /\ UNCHANGED <<is_microcontroller, board_imported, libraries, board, connected, deinits>>
    /\ UNCHANGED logVars

GetCpythonRadio ==
    \E raise_exception \in BOOLEAN, cpy \in BOOLEAN :
        LET r == get_cpython_radio(Globals, raise_exception, cpy) IN
        /\ cpy \/ "cpython" \in r.hw
        /\ ProbeDone("get_cpython_radio", raise_exception, r)

GetWifiRadio ==
    \E raise_exception \in BOOLEAN :
        ProbeDone("get_wifi_radio", raise_exception,
                  get_wifi_radio(Globals, raise_exception))

GetEsp32spiRadio ==
    \E raise_exception \in BOOLEAN, responds \in BOOLEAN :
        LET r == get_esp32spi_radio(Globals, raise_exception, responds) IN
        /\ responds \/ "esp32spi" \in r.hw
        /\ ProbeDone("get_esp32spi_radio", raise_exception, r)

GetWiznet5kRadio ==
    \E raise_exception \in BOOLEAN, responds \in BOOLEAN :
        LET r == get_wiznet5k_radio(Globals, raise_exception, responds) IN
        /\ responds \/ "wiznet5k" \in r.hw
        /\ ProbeDone("get_wiznet5k_radio", raise_exception, r)

DeinitRadio ==
    \E radio \in Handles \cup {NoRadio} :
        LET r == deinit_radio(Globals, radio) IN
        /\ last = NoCall
        /\ r.exc = "" => deinits["cpython"] + deinits["wifi"] + deinits["esp32spi"]
                             + deinits["wiznet5k"] < MaxDeinits
        /\ SetGlobals(r.g)
        /\ deinits' = IF r.exc = "" THEN [deinits EXCEPT ![radio.kind] = @ + 1] ELSE deinits
        /\ last' = Call("deinit_radio", "None", FALSE, FALSE, radio, NoEnv, r, <<>>, FALSE)
        /\ connected' = IF r.exc = "" /\ radio # WifiRadio THEN connected \ {radio}
                        ELSE connected
        /\ UNCHANGED <<is_microcontroller, board_imported, libraries, board>>
        /\ UNCHANGED logVars

\* The environment: a connected radio loses its link
LinkDown ==
    \E radio \in connected :
        /\ last = NoCall
        /\ connected' = connected \ {radio}
        /\ UNCHANGED <<is_microcontroller, board_imported, libraries, board,
                       global_found_radios, global_spi, constructed, pins, saves, deinits, last>>
        /\ UNCHANGED logVars

\* The call has ended and its caller goes on
Resume ==
    /\ last # NoCall
    /\ last' = NoCall
    /\ UNCHANGED <<is_microcontroller, board_imported, libraries, board,
                   global_found_radios, global_spi, constructed, pins, connected, saves,
                   deinits>>
    /\ UNCHANGED logVars

\* After import: nothing found, no SPI bus.  The platform, the installed
\* libraries and the board are fixed for the run; a board module is always
\* importable on a microcontroller
InitRadio ==
    /\ is_microcontroller \in BOOLEAN
    /\ board_imported \in BOOLEAN
    /\ is_microcontroller => board_imported
    /\ libraries \in SUBSET HardwareLibraries
    /\ board \in IF board_imported THEN BoardLayouts ELSE {{}}
    /\ global_found_radios = <<>>
    /\ global_spi = FALSE
    /\ constructed = [k \in DriverKinds |-> 0]
    /\ pins = <<>>
    /\ connected = {}
    /\ saves = [k \in Kinds |-> 0]
    /\ deinits = [k \in Kinds |-> 0]
    /\ last = NoCall


----------------------------------------------------------------------------
(* The calls of socket_logger.py, as actions.  SpecSocket is a SocketLogger *)
(* constructed with any flags and called by its user; SpecPool is a         *)
(* SocketPoolLogger.  In both the connection helper is idle.                *)

LogCall(op, target, args, pargs, logged, under, has, r) ==
    [op |-> op, target |-> target, args |-> args, pargs |-> pargs, logged |-> logged,
     under |-> under, has |-> has, calls |-> r.calls, printed |-> r.printed,
     exc |-> r.exc, value |-> r.value, wrapper |-> r.wrapper]
NoOutcome == Outcome("", Absent, <<>>)
NoLogCall ==
    LogCall("", "", NoArgs, NoPoolArgs, FALSE, NoOutcome, {},
            Ended(<<>>, <<>>, "", Absent, NoWrapper))

LogIdle ==
    /\ pool_enable = {}
    /\ wrapper = NoWrapper
    /\ lastlog = NoLogCall

RadioIdle ==
    /\ is_microcontroller = TRUE
    /\ board_imported = TRUE
    /\ libraries = HardwareLibraries
    /\ board = {"D13", "D11", "D12", "D10"}
    /\ global_found_radios = <<>>
    /\ global_spi = FALSE
    /\ constructed = [k \in DriverKinds |-> 0]
    /\ pins = <<>>
    /\ connected = {}
    /\ saves = [k \in Kinds |-> 0]
    /\ deinits = [k \in Kinds |-> 0]
    /\ last = NoCall

\* the inputs of the calls
Addresses == {<<"host", 80>>, <<"host">>}
Extras == {<<>>, <<"tls">>}
Buffer(n) == [i \in 1..n |-> 6 + i]
Buffers == {Buffer(n) : n \in 0..MaxBuf}
Sizes == {Absent} \cup (0..MaxBuf)
Timeouts == {Absent, 5}
Failures == {Outcome("OSError", Absent, <<>>), Outcome("KeyboardInterrupt", Absent, <<>>)}
ReturnsNone == {NoOutcome} \cup Failures
\* recv_into returns the number of bytes it has put into the buffer
Receives == {Outcome("", n, Buffer(n) \o [i \in 1..(MaxBuf - n) |-> 0]) : n \in 0..MaxBuf}
                \cup Failures
\* send and sendto return the number of bytes sent
Sends(b) == {Outcome("", n, <<>>) : n \in 0..Len(b)} \cup Failures

MethodCalled(method_name, args, under) ==
    /\ lastlog = NoLogCall
    /\ wrapper # NoWrapper
    /\ lastlog' = LogCall(method_name, "socket", args, NoPoolArgs,
                          method_name \in wrapper.logged, under, Methods,
                          socket_method(wrapper, method_name, args, under))
    /\ UNCHANGED <<pool_enable, wrapper>>
    /\ UNCHANGED radioVars

Close ==
    \E extra \in Extras, under \in ReturnsNone :
        MethodCalled("close", SocketArgs(<<>>, <<>>, Absent, Absent, extra), under)

Connect ==
    \E address \in Addresses, extra \in Extras, under \in ReturnsNone :
        MethodCalled("connect", SocketArgs(address, <<>>, Absent, Absent, extra), under)

RecvInto ==
    \E size \in Sizes, extra \in Extras, under \in Receives :
        MethodCalled("recv_into", SocketArgs(<<>>, Buffer(0) \o [i \in 1..MaxBuf |-> 0],
                                             size, Absent, extra), under)

Send ==
    \E b \in Buffers, extra \in Extras : \E under \in Sends(b) :
        MethodCalled("send", SocketArgs(<<>>, b, Absent, Absent, extra), under)

Sendto ==
    \E b \in Buffers, address \in Addresses, extra \in Extras : \E under \in Sends(b) :
        MethodCalled("sendto", SocketArgs(address, b, Absent, Absent, extra), under)

Settimeout ==
    \E value \in Timeouts, extra \in Extras, under \in ReturnsNone :
        MethodCalled("settimeout", SocketArgs(<<>>, <<>>, Absent, value, extra), under)

\* wrapper.enable_log(enable, method_name); "recv" is a method without a
\* _log_ method, which the socket may lack
EnableLog ==
    \E enable \in BOOLEAN, method_name \in Methods \cup {"recv"},
       has \in {Methods, Methods \cup {"recv"}} :
        LET r == enable_log(wrapper, enable, method_name, has) IN
        /\ lastlog = NoLogCall
        /\ wrapper # NoWrapper
        /\ wrapper' = r.wrapper
        /\ lastlog' = LogCall("enable_log", "socket",
                              SocketArgs(<<>>, <<>>, Absent, Absent, <<method_name>>),
                              NoPoolArgs, enable, NoOutcome, has, r)
        /\ UNCHANGED pool_enable
        /\ UNCHANGED radioVars

\* SocketPoolLogger.enable_log_all
EnableLogAll ==
    \E enable \in BOOLEAN :
        /\ lastlog = NoLogCall
        /\ pool_enable' = IF enable THEN Methods ELSE {}
        /\ UNCHANGED <<wrapper, lastlog>>
        /\ UNCHANGED radioVars

\* SocketPoolLogger.enable_log_close, ..., enable_log_settimeout
EnableLogMethod ==
    \E enable \in BOOLEAN, method_name \in Methods :
        /\ lastlog = NoLogCall
        /\ pool_enable' = IF enable THEN pool_enable \cup {method_name}
                          ELSE pool_enable \ {method_name}
        /\ UNCHANGED <<wrapper, lastlog>>
        /\ UNCHANGED radioVars

Families == {0, 2}
Types == {1, 2}
Filenos == {Absent, 7}
\* the sockets of the underlying pool; one kind of socket has no sendto
SocketKinds == {Methods, Methods \ {"sendto"}}

Getaddrinfo ==
    \E host \in {"host"}, port \in {80}, family \in Families, type \in Types,
       flags \in {0, 1},
       under \in {Outcome("", 1, <<>>)} \cup Failures :
        LET pargs == PoolArgs(host, port, family, type, 0, flags, Absent) IN
        /\ lastlog = NoLogCall
        /\ lastlog' = LogCall("getaddrinfo", "pool", NoArgs, pargs, TRUE, under, {},
                              getaddrinfo(pargs, under))
        /\ UNCHANGED <<pool_enable, wrapper>>
        /\ UNCHANGED radioVars

Socket ==
    \E family \in Families, type \in Types, fileno \in Filenos, has \in SocketKinds,
       under \in {Outcome("", id, <<>>) : id \in 1..MaxSockets} \cup Failures :
        LET pargs == PoolArgs("", Absent, family, type, 0, Absent, fileno) IN
        /\ lastlog = NoLogCall
        /\ under.exc = "" \/ has = Methods
        /\ lastlog' = LogCall("socket", "pool", NoArgs, pargs, TRUE, under, has,
                              pool_socket(pool_enable, pargs, under, has))
        /\ UNCHANGED <<pool_enable, wrapper>>
        /\ UNCHANGED radioVars

\* The call has ended and its caller goes on
ResumeLog ==
    /\ lastlog # NoLogCall
    /\ lastlog' = NoLogCall
    /\ UNCHANGED <<pool_enable, wrapper>>
    /\ UNCHANGED radioVars

\* a SocketLogger as its constructor leaves it, with the default flags or
\* with all of them set
InitSocket ==
    /\ RadioIdle
    /\ pool_enable = {}
    /\ wrapper \in {SocketLogger(socket, flags, Methods).wrapper :
                        socket \in 1..MaxSockets, flags \in {{}, Methods}}
    /\ lastlog = NoLogCall

NextSocket ==
    \/ Close
    \/ Connect
    \/ RecvInto
    \/ Send
    \/ Sendto
    \/ Settimeout
    \/ EnableLog
    \/ ResumeLog

SpecSocket == InitSocket /\ [][NextSocket]_vars

InitPool == RadioIdle /\ LogIdle

NextPool ==
    \/ EnableLogAll
    \/ EnableLogMethod
    \/ Getaddrinfo
    \/ Socket
    \/ ResumeLog

SpecPool == InitPool /\ [][NextPool]_vars

----------------------------------------------------------------------------
(* The connection helper, with the socket logger idle *)

Init == InitRadio /\ LogIdle

Next ==
    \/ GetRadio
    \/ GetCpythonRadio
    \/ GetWifiRadio
    \/ GetEsp32spiRadio
    \/ GetWiznet5kRadio
    \/ DeinitRadio
    \/ LinkDown
    \/ Resume

Spec == Init /\ [][Next]_vars

----------------------------------------------------------------------------
(* Properties of connection_helper.py *)

IsPrefix(s, t) == Len(s) <= Len(t) /\ \A i \in DOMAIN s : s[i] = t[i]
ProbeKinds(call) == [i \in DOMAIN call.probes |-> call.probes[i].kind]
\* the order in which get_radio(force=None) goes through the candidates
CandidateOrder ==
    IF is_microcontroller THEN <<"wifi", "esp32spi", "wiznet5k">>
    ELSE <<"cpython", "wifi", "esp32spi", "wiznet5k">>
Returned(call) == call.exc = "" /\ call.ret # NoRadio
Found == global_found_radios

\* C1: get_radio(force=None) probes the candidates in the order cpython
\* (off the microcontroller only), wifi, esp32spi, wiznet5k, each at most
\* once; every probe before the last one gave no radio; and when it returns,
\* the radio is the one the last probe gave.
C1_ProbeOrder ==
    (last.op = "get_radio" /\ last.force = "None") =>
        /\ IsPrefix(ProbeKinds(last), CandidateOrder)
        /\ \A i \in DOMAIN last.probes : i < Len(last.probes) => ~last.probes[i].ok
        /\ last.exc = "" =>
              /\ last.probes # <<>>
              /\ last.probes[Len(last.probes)].ok
              /\ last.ret.kind = last.probes[Len(last.probes)].kind
              /\ last.ret = get_saved_radio(Found, last.ret.kind)

\* get_radio(force=None) went through wifi and esp32spi without a radio and
\* returned the wiznet5k radio
C1_Witness ==
    /\ last.op = "get_radio" /\ last.force = "None" /\ last.exc = ""
    /\ ProbeKinds(last) = <<"wifi", "esp32spi", "wiznet5k">>
    /\ last.ret.kind = "wiznet5k"

\* what a call for a kind that is cached must do: return the cached radio,
\* construct no driver of the kind, leave the entry and its pins alone
CacheHit(kind) ==
    /\ \A i \in DOMAIN last'.probes : last'.probes[i].kind = kind => last'.probes[i].ok
    /\ (last'.exc = "" /\ last'.probes[Len(last'.probes)].kind = kind) =>
           last'.ret = Found[kind].radio
    /\ last'.op # "get_radio" => last'.exc = "" /\ last'.alloc = <<>> /\ pins' = pins
    /\ kind \in DriverKinds => constructed'[kind] = constructed[kind]
    /\ kind \in DOMAIN Found' /\ Found'[kind] = Found[kind]
    /\ \A i \in DOMAIN Found[kind].pins : pins'[Found[kind].pins[i]] = pins[Found[kind].pins[i]]
    /\ saves'[kind] = saves[kind]

CallsKind(call, kind) ==
    \/ call.op = "get_" \o kind \o "_radio"
    \/ call.op = "get_radio" /\ \E i \in DOMAIN call.probes : call.probes[i].kind = kind

C2_Cached ==
    \A kind \in Kinds :
        /\ (kind \in DOMAIN Found /\ CallsKind(last', kind)) => CacheHit(kind)
        /\ (kind \in DOMAIN Found /\ kind \notin DOMAIN Found') =>
               last'.op = "deinit_radio" /\ last'.radio = Found[kind].radio
        /\ saves'[kind] <= 1 + deinits'[kind]
        /\ kind \in {"cpython", "wiznet5k"} => constructed'[kind] <= 1 + deinits'[kind]

\* C2 (as amended): once a kind is cached, every call for that kind returns
\* the cached radio without constructing a driver or allocating pins, and
\* the entry stays until deinit_radio is called on its radio; so the number
\* of radios of a kind put into the cache never exceeds one plus the number
\* of deinit_radio calls for that kind, and the same bounds the driver
\* constructions for cpython and wiznet5k.
C2_CacheAmended == [][C2_Cached]_vars

\* C2 (as claimed): the number of driver constructions of a kind never
\* exceeds one plus the number of deinit_radio calls for that kind.
C2_ConstructionsBounded ==
    \A kind \in DriverKinds : constructed[kind] <= 1 + deinits[kind]

\* a call for esp32spi returned the radio that an earlier call had cached
C2_Witness ==
    /\ last.op = "get_esp32spi_radio" /\ last.exc = "" /\ last.alloc = <<>>
    /\ last.ret = [kind |-> "esp32spi", id |-> 2]
    /\ constructed["esp32spi"] = 2 /\ deinits["esp32spi"] = 1

\* C3 (as claimed): with force=None a candidate that fails never makes
\* get_radio raise: when no probe gives a radio, every candidate has been
\* probed and get_radio raises RuntimeError("Cannot determine radio").
C3_FailedCandidateSkipped ==
    (/\ last.op = "get_radio" /\ last.force = "None"
     /\ \A i \in DOMAIN last.probes : ~last.probes[i].ok) =>
        /\ ProbeKinds(last) = CandidateOrder
        /\ last.exc = "RuntimeError" /\ last.msg = "Cannot determine radio"
        /\ last.ret = NoRadio

\* the SSID connect_radio uses, from the settings the call read
Ssid(call) == ResolveSsid(call.env).ssid
Successes(call) == {i \in DOMAIN call.attempts : call.attempts[i].ok}

\* C4: when get_radio(connect=True) returns, the radio has no connect
\* method, or was connected already, or is connected by exactly one
\* successful attempt with the configured SSID (connect, or connect_AP
\* after connect raised TypeError); no attempt is made on a connected
\* radio or with connect=False; and with no SSID configured the call
\* raises AttributeError.
C4_ReadyToUse ==
    last.op = "get_radio" =>
        /\ (last.exc = "" /\ last.connect) =>
              \/ ~HasConnect(last.ret) /\ last.attempts = <<>>
              \/ last.was_connected /\ last.attempts = <<>>
              \/ /\ Successes(last) = {Len(last.attempts)}
                 /\ last.attempts[1].method = "connect"
                 /\ Len(last.attempts) = 2 => last.attempts[2].method = "connect_AP"
                 /\ Len(last.attempts) <= 2
                 /\ \A i \in DOMAIN last.attempts :
                        last.attempts[i].ssid = Ssid(last) /\ Ssid(last) # "None"
                 /\ last.ret \in connected
        /\ (last.was_connected \/ ~last.connect) => last.attempts = <<>>
        /\ (/\ last.connect /\ ~last.was_connected
            /\ last.probes # <<>> /\ last.probes[Len(last.probes)].ok
            /\ last.probes[Len(last.probes)].kind \in ConnectKinds
            /\ Ssid(last) = "None") =>
              last.exc = "AttributeError" /\ last.ret = NoRadio /\ last.attempts = <<>>

\* get_radio returned a radio it connected with connect_AP
C4_Witness ==
    /\ last.op = "get_radio" /\ last.connect /\ last.exc = ""
    /\ Len(last.attempts) = 2 /\ last.attempts[2].ok
    /\ last.ret \in connected

\* C8 (as claimed): a get_esp32spi_radio or get_wiznet5k_radio call that
\* allocated pins and gave no radio has deinit'ed each of them exactly
\* once, left no cache entry for the kind, and ended with None or
\* RuntimeError.
C8_FailedProbeCleansUp ==
    (/\ last.op \in {"get_esp32spi_radio", "get_wiznet5k_radio"}
     /\ last.alloc # <<>> /\ ~Returned(last)) =>
        /\ \A i \in DOMAIN last.alloc : pins[last.alloc[i]] = 1
        /\ last.probes[1].kind \notin DOMAIN Found
        /\ last.exc \in {"", "RuntimeError"}

\* what deinit_radio must do with the cache and the pins
C9_Deinit ==
    LET radio == last'.radio
        holders == {k \in DOMAIN Found : Found[k].radio = radio}
    IN /\ (last'.op = "deinit_radio" /\ holders # {}) =>
             /\ last'.exc = ""
             /\ Cardinality(holders) = 1
             /\ DOMAIN Found' = (DOMAIN Found) \ holders
             /\ \A k \in DOMAIN Found' : Found'[k] = Found[k]
             /\ DOMAIN pins' = DOMAIN pins
             /\ \A k \in holders : \A p \in DOMAIN pins :
                    pins'[p] = pins[p] +
                        Cardinality({i \in DOMAIN Found[k].pins : Found[k].pins[i] = p})
       /\ (last'.op = "deinit_radio" /\ holders = {}) =>
             /\ last'.exc = "ValueError" /\ last'.msg = "Radio not found"
             /\ Found' = Found /\ pins' = pins
       /\ \A kind \in Kinds :
             (/\ last'.op = "get_" \o kind \o "_radio" /\ kind \notin DOMAIN Found
              /\ Returned(last')) =>
                /\ saves'[kind] = saves[kind] + 1
                /\ kind \in DOMAIN Found' /\ Found'[kind].radio = last'.ret
                /\ kind \in DriverKinds => constructed'[kind] = constructed[kind] + 1

\* C9: deinit_radio on a cached radio removes the one entry that holds it,
\* calls deinit once on each pin of that entry and on no other pin, and
\* leaves the other entries unchanged, so that the next get_<kind>_radio
\* call initializes the kind again; on a radio that is not cached it raises
\* ValueError("Radio not found") and changes neither the cache nor a pin.
C9_DeinitFrame == [][C9_Deinit]_vars

\* deinit_radio removed the esp32spi entry, deinit'ed its three pins, and
\* another entry is still cached with its pin untouched
C9_Witness ==
    /\ last.op = "deinit_radio" /\ last.exc = "" /\ last.radio.kind = "esp32spi"
    /\ \A i \in DOMAIN Esp32Pins : pins[Esp32Pins[i]] = 1
    /\ "wiznet5k" \in DOMAIN Found /\ pins["wiznet_chip_select"] = 0

\* C10 (as claimed): get_radio with force naming wifi, esp32spi or wiznet5k
\* returns a radio of that kind or raises RuntimeError, and probes neither
\* of the other two hardware kinds.
C10_ForcedKind ==
    (/\ last.op = "get_radio" /\ ~last.connect
     /\ last.force \in HardwareLibraries) =>
        /\ \/ last.exc = "" /\ last.ret.kind = last.force
           \/ last.exc = "RuntimeError"
        /\ \A i \in DOMAIN last.probes : last.probes[i].kind \in {"cpython", last.force}

----------------------------------------------------------------------------
(* Properties of socket_logger.py *)

\* the most recent call is a call of a SocketLogger method that logs
LoggedCall == lastlog.target = "socket" /\ lastlog.op \in Methods /\ lastlog.logged
\* the most recent call is a call of a SocketLogger method set to the
\* method of the socket
NativeCall == lastlog.target = "socket" /\ lastlog.op \in Methods /\ ~lastlog.logged

\* the arguments fit the signature of the _log_ method, and an address has
\* a host and a port
FitsSignature(op, args) ==
    /\ op # "connect" => args.extra = <<>>
    /\ op \in {"connect", "sendto"} => Len(args.address) >= 2
\* the arguments the _log_ method hands on
HandedOn(op, args) ==
    IF op = "close" THEN NoArgs
    ELSE IF op = "recv_into" /\ args.size = Absent THEN [args EXCEPT !.size = 0]
    ELSE args
\* what the caller gets from the method of the socket itself
Underlying(under) ==
    [exc |-> under.exc, value |-> IF under.exc = "" THEN under.value ELSE Absent]
Outcomes(call) == [exc |-> call.exc, value |-> call.value]

\* C5 (as claimed): a SocketLogger method that logs calls the method of the
\* socket exactly once with the arguments it was called with, returns what
\* that returns and raises what that raises.
C5_PassThrough ==
    LoggedCall =>
        /\ lastlog.calls = <<UnderlyingCall(wrapper.socket, lastlog.op, lastlog.args, NoPoolArgs)>>
        /\ Outcomes(lastlog) = Underlying(lastlog.under)

\* C5 (as amended): a SocketLogger method that logs, called with arguments
\* that fit close(), connect(address, ...), recv_into(b[, size]), send(b),
\* sendto(b, address), settimeout(value) and addresses of a host and a
\* port, calls the method of the socket exactly once, with the arguments it
\* was called with except that recv_into gets size=0 when the caller gave
\* no size, returns what that returns and raises what that raises; called
\* with other arguments it raises TypeError or IndexError and the socket is
\* not called.  A method that does not log is the method of the socket.
C5_PassThroughAmended ==
    /\ (LoggedCall /\ FitsSignature(lastlog.op, lastlog.args)) =>
          /\ lastlog.calls = <<UnderlyingCall(wrapper.socket, lastlog.op,
                                              HandedOn(lastlog.op, lastlog.args), NoPoolArgs)>>
          /\ Outcomes(lastlog) = Underlying(lastlog.under)
    /\ (LoggedCall /\ ~FitsSignature(lastlog.op, lastlog.args)) =>
          /\ lastlog.calls = <<>>
          /\ lastlog.exc \in {"TypeError", "IndexError"}
    /\ NativeCall =>
          /\ lastlog.calls = <<UnderlyingCall(wrapper.socket, lastlog.op, lastlog.args, NoPoolArgs)>>
          /\ Outcomes(lastlog) = Underlying(lastlog.under)

\* recv_into, the one method that logs, called without a size, raised the
\* OSError of the socket
C5_Witness ==
    /\ LoggedCall /\ lastlog.op = "recv_into" /\ lastlog.args.size = Absent
    /\ wrapper.logged = {"recv_into"}
    /\ lastlog.under.exc = "OSError" /\ lastlog.exc = "OSError"
    /\ Len(lastlog.calls) = 1 /\ lastlog.calls[1].args.size = 0

\* C6 (as claimed): getaddrinfo and socket call the pool exactly once with
\* every argument they received, and socket returns a SocketLogger that
\* wraps the socket the pool returned.
C6_PoolPassThrough ==
    lastlog.target = "pool" =>
        /\ lastlog.calls = <<UnderlyingCall(0, lastlog.op, NoArgs, lastlog.pargs)>>
        /\ (lastlog.op = "socket" /\ lastlog.exc = "") =>
              lastlog.wrapper.socket = lastlog.under.value

\* C7 (as claimed): a call of getaddrinfo or socket, or of a SocketLogger
\* method that logs, whose underlying call returns or raises an Exception
\* prints exactly one line, with the result or the exception; a
\* SocketLogger method that does not log prints nothing.
C7_OneLogLine ==
    /\ ((lastlog.target = "pool" \/ LoggedCall)
        /\ lastlog.under.exc \in Exceptions \cup {""}
        /\ (LoggedCall => FitsSignature(lastlog.op, lastlog.args))) =>
          /\ Len(lastlog.printed) = 1
          /\ lastlog.printed[1].method = lastlog.op
          /\ lastlog.printed[1].result.exc = lastlog.exc
          /\ lastlog.exc = "" => lastlog.printed[1].result.value = lastlog.value
    /\ NativeCall => lastlog.printed = <<>>

====
